---- MODULE Spec2Model ----
(***************************************************************************)
(* Model of cntk.trainer.Trainer (bindings/python/cntk/trainer.py): the    *)
(* Python wrapper around the native cntk_py.Trainer.  The wrapper's own    *)
(* code (device defaulting, the truthiness test on `outputs`, the output   *)
(* map, the order of the calls, the return shape) is translated from the   *)
(* source.  The native engine (cntk_py.Trainer, DeviceDescriptor) and the  *)
(* helpers of cntk.utils (sanitize_var_map, value_to_seq) are not part of  *)
(* the source file; they are modelled from the specification.              *)
(***************************************************************************)
EXTENDS Integers, Sequences, FiniteSets, TLC

\* ------------------------------------------------------------- bounds
NumLearners == 2    \* learners of a trainer
MaxSamples == 2     \* samples of one input's batch
MaxData == 1        \* distinct minibatch contents
MaxOutputs == 2     \* length of an `outputs` list

\* ---------------------------------------------------------- universes
Trainers == {"t1", "t2"}
Learners == 1..NumLearners
Paths == {"ckpt"}
OutputVars == {"o1", "o2"}
DictKeys == {"x", "y", "z"}

\* self.model().arguments(): the model's declared inputs, in order.
ModelArguments == <<"x", "y">>

Range(s) == {s[i] : i \in DOMAIN s}

RECURSIVE SumSeq(_)
SumSeq(s) == IF s = <<>> THEN 0 ELSE Head(s) + SumSeq(Tail(s))

SeqsUpTo(S, n) == UNION {[1..k -> S] : k \in 0..n}

\* An absent optional argument (Python None) and a given one.
Absent == [given |-> FALSE, list |-> <<>>]
Given(l) == [given |-> TRUE, list |-> l]

VARIABLES
    params,     \* params[t][l]: the parameter owned by learner l
    lstate,     \* lstate[t][l]: learner l's internal state (updates applied)
    stats,      \* stats[t]: loss average, evaluation average, sample count
    fs,         \* fs[p]: the checkpoint file at path p
    last,       \* the call made last, with its outcome
    sync,       \* sync[t]: the checkpointed state t saved or restored last, and
                \* the minibatch trained since
    saved,      \* saved[p]: the state the checkpoint at path p was taken of
    pc,         \* pc[c]: caller c's position in the method it runs
    frame       \* frame[c]: caller c's locals

vars == <<params, lstate, stats, fs, last, sync, saved, pc, frame>>

\* ------------------------------------------------ minibatch arguments
\* `arguments` of train_minibatch / test_minibatch (lines 42-53, 92-103): a list of
\* batches in the order of the model's inputs, or a dict from input names to
\* batches; given as a tuple, its second element is the list of sequence-start
\* flags.  A batch is modelled by its number of samples; `data` is the content.
ListArgs(items, flags, d) ==
    [items |-> items, flags |-> flags, form |-> "list", named |-> {}, data |-> d]
DictArgs(named, flags, d) ==
    [items |-> <<>>, flags |-> flags, form |-> "dict", named |-> named, data |-> d]

Batches == 1..MaxSamples
\* A dict is a set of <<key, batch>> pairs with one pair per key.
Keys(named) == {kv[1] : kv \in named}

\* `outputs` of train_minibatch (line 54): None, or an iterable of variables.
OptOutputs == {Absent} \cup {Given(o) : o \in SeqsUpTo(OutputVars, MaxOutputs)}

\* ----------------------------------------- collaborators (cntk.utils)
\* DeviceDescriptor.use_default_device(): the default device, or a failure.
use_default_device(defaultOk) == IF defaultOk THEN "cpu" ELSE "DeviceError"

\* sanitize_var_map(op_arguments, arguments, seq_starts): the canonical map from
\* each input variable to its batch with its sequence starts, or the error.
AllStarts(n) == [i \in 1..n |-> TRUE]
\* The flag lists given: the tuple's second element and seq_starts.
FlagsOf(arguments, seq_starts) ==
    {g.list : g \in {h \in {arguments.flags, seq_starts} : h.given}}
\* The flag list in force: the tuple's, else seq_starts.
StartsOf(arguments, seq_starts) ==
    IF arguments.flags.given THEN arguments.flags ELSE seq_starts
normalize_input(op_arguments, arguments) ==
    IF arguments.form = "list"
    THEN IF Len(arguments.items) # Len(op_arguments)
         THEN [err |-> "ShapeMismatchError", map |-> {}]
         ELSE [err |-> "none",
               map |-> {<<op_arguments[i], arguments.items[i]>> :
                           i \in DOMAIN op_arguments}]
    ELSE IF Keys(arguments.named) \subseteq Range(op_arguments)
         THEN [err |-> "none", map |-> arguments.named]
         ELSE [err |-> "ShapeMismatchError", map |-> {}]
attach_sequence_boundaries(map, flagLists, starts) ==
    IF \E f \in flagLists : \E kv \in map : kv[2] # Len(f)
    THEN [err |-> "LengthMismatchError", map |-> {}]
    ELSE [err |-> "none",
          map |-> {<<kv[1], kv[2],
                     IF starts.given THEN starts.list ELSE AllStarts(kv[2])>> :
                      kv \in map}]
sanitize_var_map(op_arguments, arguments, seq_starts) ==
    LET n == normalize_input(op_arguments, arguments)
    IN  IF n.err # "none" THEN n
        ELSE attach_sequence_boundaries(n.map, FlagsOf(arguments, seq_starts),
                                        StartsOf(arguments, seq_starts))

\* value_to_seq(value): the native Value of a variable as a host sequence.
NativeValue(v) == [var |-> v, kind |-> "Value"]
value_to_seq(value) == [var |-> value.var, kind |-> "sequence"]

\* ------------------------------------- native engine (cntk_py.Trainer)
\* The criteria of the forward pass over parameters ps and content d.
Loss(ps, d) == SumSeq(ps) + d
Eval(ps, d) == SumSeq(ps) + 2 * d + 1
Gradient(d) == d + 1
\* The number of samples of a normalized minibatch: that of the first input.
SampleCount(map) == (CHOOSE e \in map : e[1] = ModelArguments[1])[2]

\* Learner l's schedule: it is exhausted after Budget(l) updates.
Budget(l) == l
\* Learner.update: an active learner updates its parameter and continues; an
\* exhausted one leaves it alone and reports the end of learning.
Update(l, p, n, g) ==
    IF n < Budget(l)
    THEN [param |-> p + g, steps |-> n + 1, continue |-> TRUE]
    ELSE [param |-> p, steps |-> n, continue |-> FALSE]
\* Learner set: every learner is updated; false only if all report the end.
LearnersApply(ps, ns, g) ==
    LET u == [l \in Learners |-> Update(l, ps[l], ns[l], g)]
    IN  [params |-> [l \in Learners |-> u[l].param],
         lstate |-> [l \in Learners |-> u[l].steps],
         continuing |-> \E l \in Learners : u[l].continue]

Same(t) == [params |-> params[t], lstate |-> lstate[t], stats |-> stats[t]]

\* cntk_py.Trainer.train_minibatch: one step, all or nothing.  The step fails
\* on a fault of the backend and on a map that does not bind every input.
NativeTrain(t, map, data, outKeys, fault) ==
    IF fault
    THEN [status |-> "StepError", flag |-> FALSE, eng |-> Same(t), values |-> {}]
    ELSE IF {e[1] : e \in map} # Range(ModelArguments)
    THEN [status |-> "StepError", flag |-> FALSE, eng |-> Same(t), values |-> {}]
    ELSE LET a == LearnersApply(params[t], lstate[t], Gradient(data))
         IN  [status |-> "ok", flag |-> a.continuing,
              eng |-> [params |-> a.params, lstate |-> a.lstate,
                       stats |-> [loss |-> Loss(params[t], data),
                                  eval |-> Eval(params[t], data),
                                  count |-> SampleCount(map)]],
              values |-> {<<k, NativeValue(k)>> : k \in outKeys}]

\* cntk_py.Trainer.test_minibatch: the forward pass of the evaluation function.
NativeTest(t, map, data, fault) ==
    IF fault
    THEN [value |-> 0, status |-> "StepError", eng |-> Same(t)]
    ELSE IF {e[1] : e \in map} # Range(ModelArguments)
    THEN [value |-> 0, status |-> "StepError", eng |-> Same(t)]
    ELSE [value |-> Eval(params[t], data), status |-> "ok", eng |-> Same(t)]

\* Checkpoint codec: the file holds the parameters and every learner's state.
NoFile == [params |-> <<>>, lstate |-> <<>>, present |-> FALSE]
NativeSave(t, filename, fault) ==
    IF fault
    THEN [status |-> "IOError", eng |-> Same(t), file |-> fs[filename]]
    ELSE [status |-> "ok", eng |-> Same(t),
          file |-> [params |-> params[t], lstate |-> lstate[t], present |-> TRUE]]
NativeRestore(t, filename, fault) ==
    IF fault \/ ~fs[filename].present
    THEN [status |-> "IOError", eng |-> Same(t), file |-> fs[filename]]
    ELSE [status |-> "ok",
          eng |-> [params |-> fs[filename].params, lstate |-> fs[filename].lstate,
                   stats |-> stats[t]],
          file |-> fs[filename]]

\* ------------------------------------------------ the Python wrapper
NoValue == [var |-> "None", kind |-> "None"]
NoRet == [map |-> {}, value |-> 0, flag |-> FALSE, shape |-> "none"]
BoolRet(b) == [map |-> {}, value |-> 0, flag |-> b, shape |-> "bool"]
PairRet(b, m) == [map |-> m, value |-> 0, flag |-> b, shape |-> "pair"]
FloatRet(v) == [map |-> {}, value |-> v, flag |-> FALSE, shape |-> "float"]
ObjectRet(v) == [map |-> {}, value |-> v, flag |-> FALSE, shape |-> "object"]

Raise(t, err, dev) ==
    [status |-> err, eng |-> Same(t), dev |-> dev, san |-> {}, ret |-> NoRet]

\* if not device: device = DeviceDescriptor.use_default_device()
ResolveDevice(device, defaultOk) ==
    IF device = "None" THEN use_default_device(defaultOk) ELSE device

\* `if outputs:`: Python's truth value of None and of a collection.
OutputsRequested(outputs) == outputs.given /\ outputs.list # <<>>

\* Mutant: the comprehension misses the last requested variable.
NewOutputMap_DropsLast(outputs) ==
    {<<outputs.list[i], NoValue>> : i \in 1..(Len(outputs.list) - 1)}

\* output_map = {v: None for v in outputs}
NewOutputMap(outputs) == {<<v, NoValue>> : v \in Range(outputs.list)}

\* The native step fills the map it is handed, key by key.
Filled(output_map, values) ==
    {<<e[1], IF \E w \in values : w[1] = e[1]
             THEN (CHOOSE w \in values : w[1] = e[1])[2] ELSE e[2]>> :
        e \in output_map}

\* for k, v in output_map.items(): output_map[k] = value_to_seq(v)
ConvertOutputs(output_map) == {<<e[1], value_to_seq(e[2])>> : e \in output_map}

\* Mutant: the flag returned is a constant, not the learners' answer.
TrainReturn_AlwaysTrue(requested, updated, output_map) ==
    IF requested THEN PairRet(TRUE, output_map) ELSE BoolRet(TRUE)

\* return updated, output_map / return updated
TrainReturn(requested, updated, output_map) ==
    IF requested THEN PairRet(updated, output_map) ELSE BoolRet(updated)

\* Mutant: the requested outputs are handed to the step, but not the map that
\* is converted afterwards, so that the conversion fails once the step has run.
TrainOutcome_ConvertsUnfilled(t, arguments, outputs, device, env) ==
    LET dev == ResolveDevice(device, env.defaultOk)
        san == sanitize_var_map(ModelArguments, arguments, Absent)
        r == NativeTrain(t, san.map, arguments.data, {}, env.fault)
    IN  IF dev = "DeviceError" THEN Raise(t, "DeviceError", dev)
        ELSE IF san.err # "none" THEN Raise(t, san.err, dev)
        ELSE IF r.status # "ok" THEN Raise(t, r.status, dev)
        ELSE IF OutputsRequested(outputs)
        THEN [status |-> "AttributeError", eng |-> r.eng, dev |-> dev,
              san |-> san.map, ret |-> NoRet]
        ELSE [status |-> "ok", eng |-> r.eng, dev |-> dev,
              san |-> san.map, ret |-> TrainReturn(FALSE, r.flag, {})]

\* Mutant: the arguments are normalized before the device is resolved.
TrainOutcome_SanitizesFirst(t, arguments, outputs, device, env) ==
    LET dev == ResolveDevice(device, env.defaultOk)
        san == sanitize_var_map(ModelArguments, arguments, Absent)
        r == NativeTrain(t, san.map, arguments.data, Range(outputs.list), env.fault)
    IN  IF san.err # "none" THEN Raise(t, san.err, dev)
        ELSE IF dev = "DeviceError" THEN Raise(t, "DeviceError", dev)
        ELSE IF r.status # "ok" THEN Raise(t, r.status, dev)
        ELSE [status |-> "ok", eng |-> r.eng, dev |-> dev,
              san |-> san.map,
              ret |-> TrainReturn(OutputsRequested(outputs), r.flag,
                                  ConvertOutputs(r.values))]

\* Trainer.train_minibatch(arguments, outputs, device), with the environment's
\* part (whether the default device resolves, whether the backend faults).
TrainOutcome(t, arguments, outputs, device, env) ==
    LET dev == ResolveDevice(device, env.defaultOk)
        san == sanitize_var_map(ModelArguments, arguments, Absent)
    IN  IF dev = "DeviceError" THEN Raise(t, "DeviceError", dev)
        ELSE IF san.err # "none" THEN Raise(t, san.err, dev)
        ELSE IF OutputsRequested(outputs)
        THEN LET output_map == NewOutputMap(outputs)
                 r == NativeTrain(t, san.map, arguments.data, Keys(output_map),
                                  env.fault)
             IN  IF r.status # "ok" THEN Raise(t, r.status, dev)
                 ELSE [status |-> "ok", eng |-> r.eng, dev |-> dev,
                       san |-> san.map,
                       ret |-> TrainReturn(TRUE, r.flag,
                                 ConvertOutputs(Filled(output_map, r.values)))]
        ELSE LET r == NativeTrain(t, san.map, arguments.data, {}, env.fault)
             IN  IF r.status # "ok" THEN Raise(t, r.status, dev)
                 ELSE [status |-> "ok", eng |-> r.eng, dev |-> dev,
                       san |-> san.map, ret |-> TrainReturn(FALSE, r.flag, {})]

\* Mutant: the evaluation runs a training step of the native trainer.
TestOutcome_Trains(t, arguments, seq_starts, device, env) ==
    LET dev == ResolveDevice(device, env.defaultOk)
        san == sanitize_var_map(ModelArguments, arguments, seq_starts)
        r == NativeTrain(t, san.map, arguments.data, {}, env.fault)
    IN  IF dev = "DeviceError" THEN Raise(t, "DeviceError", dev)
        ELSE IF san.err # "none" THEN Raise(t, san.err, dev)
        ELSE IF r.status # "ok" THEN Raise(t, r.status, dev)
        ELSE [status |-> "ok", eng |-> r.eng, dev |-> dev,
              san |-> san.map, ret |-> FloatRet(r.eng.stats.eval)]

\* Mutant: seq_starts is not handed on to sanitize_var_map.
TestOutcome_DropsSeqStarts(t, arguments, seq_starts, device, env) ==
    LET dev == ResolveDevice(device, env.defaultOk)
        san == sanitize_var_map(ModelArguments, arguments, Absent)
        r == NativeTest(t, san.map, arguments.data, env.fault)
    IN  IF dev = "DeviceError" THEN Raise(t, "DeviceError", dev)
        ELSE IF san.err # "none" THEN Raise(t, san.err, dev)
        ELSE IF r.status # "ok" THEN Raise(t, r.status, dev)
        ELSE [status |-> "ok", eng |-> r.eng, dev |-> dev,
              san |-> san.map, ret |-> FloatRet(r.value)]

\* Trainer.test_minibatch(arguments, seq_starts, device).
TestOutcome(t, arguments, seq_starts, device, env) ==
    LET dev == ResolveDevice(device, env.defaultOk)
        san == sanitize_var_map(ModelArguments, arguments, seq_starts)
    IN  IF dev = "DeviceError" THEN Raise(t, "DeviceError", dev)
        ELSE IF san.err # "none" THEN Raise(t, san.err, dev)
        ELSE LET r == NativeTest(t, san.map, arguments.data, env.fault)
             IN  IF r.status # "ok" THEN Raise(t, r.status, dev)
                 ELSE [status |-> "ok", eng |-> r.eng, dev |-> dev,
                       san |-> san.map, ret |-> FloatRet(r.value)]

\* Mutants: each checkpoint method calls the native method of the other.
SaveOutcome_Restores(t, filename, fault) == NativeRestore(t, filename, fault)
RestoreOutcome_Saves(t, filename, fault) == NativeSave(t, filename, fault)

\* Trainer.save_checkpoint(filename) / Trainer.restore_from_checkpoint(filename).
SaveOutcome(t, filename, fault) == NativeSave(t, filename, fault)
RestoreOutcome(t, filename, fault) == NativeRestore(t, filename, fault)

\* ------------------------------------------------------------ actions
NoArgs == ListArgs(<<>>, Absent, 0)
Call(arguments, outputs, seq_starts, device, filename) ==
    [arguments |-> arguments, seq_starts |-> seq_starts, filename |-> filename,
     device |-> device, outputs |-> outputs]
NoCall == Call(NoArgs, Absent, Absent, "None", "none")

NoSync == [flag |-> FALSE, valid |-> FALSE, snap |-> <<>>, since |-> <<>>]
Synced(snap) == [flag |-> FALSE, valid |-> TRUE, snap |-> snap, since |-> <<>>]
\* What is followed of trainer t after a successful training step: the first
\* minibatch after the checkpoint, and the flag its step returned.
Followed(t, arguments, flag) ==
    IF sync[t].valid /\ sync[t].since = <<>>
    THEN [sync[t] EXCEPT !.since = <<arguments>>, !.flag = flag]
    ELSE NoSync

\* The engine state of trainer t becomes eng; the call is recorded.
Commit(t, op, call, o) ==
    /\ params' = [params EXCEPT ![t] = o.eng.params]
    /\ lstate' = [lstate EXCEPT ![t] = o.eng.lstate]
    /\ stats' = [stats EXCEPT ![t] = o.eng.stats]
    /\ last' = [t |-> t, status |-> o.status, dev |-> o.dev, san |-> o.san,
                ret |-> o.ret, op |-> op, call |-> call]

train_minibatch(t, arguments, outputs, device, env) ==
    \E o \in {TrainOutcome(t, arguments, outputs, device, env)} :
        /\ Commit(t, "train_minibatch",
                  Call(arguments, outputs, Absent, device, "none"), o)
        /\ sync' = IF o.status = "ok"
                   THEN [sync EXCEPT ![t] = Followed(t, arguments, o.ret.flag)]
                   ELSE sync
        /\ UNCHANGED <<fs, saved, pc, frame>>

test_minibatch(t, arguments, seq_starts, device, env) ==
    \E o \in {TestOutcome(t, arguments, seq_starts, device, env)} :
        /\ Commit(t, "test_minibatch",
                  Call(arguments, Absent, seq_starts, device, "none"), o)
        /\ UNCHANGED <<fs, saved, sync, pc, frame>>

save_checkpoint(t, filename, fault) ==
    \E r \in {SaveOutcome(t, filename, fault)} :
        /\ Commit(t, "save_checkpoint", Call(NoArgs, Absent, Absent, "None", filename),
                  [status |-> r.status, eng |-> r.eng, dev |-> "None", san |-> {},
                   ret |-> NoRet])
        /\ fs' = [fs EXCEPT ![filename] = r.file]
        /\ saved' = IF r.status = "ok"
                    THEN [saved EXCEPT ![filename] = <<params[t], lstate[t]>>]
                    ELSE saved
        /\ sync' = IF r.status = "ok"
                   THEN [sync EXCEPT ![t] = Synced(<<params[t], lstate[t]>>)]
                   ELSE sync
        /\ UNCHANGED <<pc, frame>>

restore_from_checkpoint(t, filename, fault) ==
    \E r \in {RestoreOutcome(t, filename, fault)} :
        /\ Commit(t, "restore_from_checkpoint",
                  Call(NoArgs, Absent, Absent, "None", filename),
                  [status |-> r.status, eng |-> r.eng, dev |-> "None", san |-> {},
                   ret |-> NoRet])
        /\ fs' = [fs EXCEPT ![filename] = r.file]
        /\ sync' = IF r.status = "ok"
                   THEN [sync EXCEPT ![t] = Synced(saved[filename])]
                   ELSE sync
        /\ UNCHANGED <<saved, pc, frame>>

\* The read-only views: each returns what the native trainer holds.
Accessors ==
    {"model", "loss_function", "evaluation_function", "parameter_learners",
     "previous_minibatch_loss_average", "previous_minibatch_evaluation_average",
     "previous_minibatch_sample_count"}
View(t, op, ret) ==
    /\ Commit(t, op, NoCall,
              [status |-> "ok", eng |-> Same(t), dev |-> "None", san |-> {},
               ret |-> ret])
    /\ UNCHANGED <<fs, saved, sync, pc, frame>>
model(t) == View(t, "model", ObjectRet(1))
loss_function(t) == View(t, "loss_function", ObjectRet(2))
evaluation_function(t) == View(t, "evaluation_function", ObjectRet(3))
parameter_learners(t) == View(t, "parameter_learners", ObjectRet(NumLearners))
previous_minibatch_loss_average(t) ==
    View(t, "previous_minibatch_loss_average", FloatRet(stats[t].loss))
previous_minibatch_evaluation_average(t) ==
    View(t, "previous_minibatch_evaluation_average", FloatRet(stats[t].eval))
previous_minibatch_sample_count(t) ==
    View(t, "previous_minibatch_sample_count", FloatRet(stats[t].count))

\* ------------------------------------------------------ specification
Callers == {"c1", "c2"}
NoFrame == [t |-> "t1", dev |-> "None", san |-> {}, output_map |-> {},
            updated |-> FALSE, op |-> "none", call |-> NoCall]
\* A checkpoint an earlier run left behind: taken after one step on content 0.
EarlierFile ==
    [params |-> [l \in Learners |-> Gradient(0)], lstate |-> [l \in Learners |-> 1],
     present |-> TRUE]
Init ==
    /\ params = [t \in Trainers |-> [l \in Learners |-> 0]]
    /\ lstate = [t \in Trainers |-> [l \in Learners |-> 0]]
    /\ stats = [t \in Trainers |-> [loss |-> 0, eval |-> 0, count |-> 0]]
    /\ fs \in [Paths -> {NoFile, EarlierFile}]
    /\ last = [t |-> "t1", status |-> "ok", dev |-> "None", san |-> {},
               ret |-> NoRet, op |-> "init", call |-> NoCall]
    /\ sync = [t \in Trainers |-> NoSync]
    /\ saved = [p \in Paths |-> IF fs[p].present
                                THEN <<fs[p].params, fs[p].lstate>> ELSE <<>>]
    /\ pc = [c \in Callers |-> "idle"]
    /\ frame = [c \in Callers |-> NoFrame]

\* The environment of a call: all is well, the default device does not resolve,
\* or the backend faults during the step.
EnvOk == [defaultOk |-> TRUE, fault |-> FALSE]
EnvNoDevice == [defaultOk |-> FALSE, fault |-> FALSE]
EnvFault == [defaultOk |-> TRUE, fault |-> TRUE]

\* Well-formed minibatches: one batch per input, every content.
GoodArguments == {ListArgs(<<MaxSamples, MaxSamples>>, Absent, d) : d \in 0..MaxData}
\* Ill-formed ones: a list that is too short, flags of the wrong length.
BadArguments ==
    {ListArgs(<<1>>, Absent, 0), ListArgs(<<1, 1>>, Given(<<TRUE, FALSE>>), 0)}
\* An explicit device, and the default one resolving or not; a faulting backend.
DeviceCases == {<<"gpu", EnvOk>>, <<"None", EnvOk>>, <<"None", EnvNoDevice>>,
                <<"gpu", EnvFault>>}

\* Everything a single caller can do with one trainer.
Next ==
    \E t \in {"t1"} :
        \/ \E a \in GoodArguments \cup BadArguments,
              o \in {Absent, Given(<<"o1">>)}, de \in DeviceCases :
               train_minibatch(t, a, o, de[1], de[2])
        \/ \E a \in GoodArguments \cup BadArguments, s \in {Absent, Given(<<TRUE>>)},
              e \in {EnvOk, EnvFault} :
               test_minibatch(t, a, s, "gpu", e)
        \/ \E p \in Paths, f \in BOOLEAN : save_checkpoint(t, p, f)
        \/ \E p \in Paths, f \in BOOLEAN : restore_from_checkpoint(t, p, f)
        \/ model(t)
        \/ loss_function(t)
        \/ evaluation_function(t)
        \/ parameter_learners(t)
        \/ previous_minibatch_loss_average(t)
        \/ previous_minibatch_evaluation_average(t)
        \/ previous_minibatch_sample_count(t)

Spec == Init /\ [][Next]_vars

\* Lists of as many batches as the model has inputs, of every size each, and
\* lists of every other length up to one more; dicts over every set of names;
\* flag lists of every length up to one more than a batch has samples.
AllLists ==
    [1..Len(ModelArguments) -> Batches]
    \cup {[i \in 1..k |-> b] : k \in 0..(Len(ModelArguments) + 1), b \in Batches}
UniformDicts ==
    {{<<k, b>> : k \in K} : K \in SUBSET DictKeys, b \in {1, MaxSamples}}
FlagsByLength ==
    {Absent} \cup {Given([i \in 1..k |-> i = 1]) : k \in 1..(MaxSamples + 1)}
AllArguments(flags) ==
    {ListArgs(l, f, 0) : l \in AllLists, f \in flags}
    \cup {DictArgs(m, f, 0) : m \in UniformDicts, f \in flags}

\* The steps of one trainer over every form of arguments.
NextArgs ==
    \E t \in {"t1"} :
        \/ \E a \in AllArguments(FlagsByLength), e \in {EnvOk, EnvNoDevice} :
               train_minibatch(t, a, Absent, "None", e)
        \/ \E a \in AllArguments({Absent}), s \in FlagsByLength :
               test_minibatch(t, a, s, "gpu", EnvOk)
        \/ \E a \in AllArguments({Absent}) :
               test_minibatch(t, a, Absent, "None", EnvNoDevice)

SpecArgs == Init /\ [][NextArgs]_vars

\* Training steps of one trainer with every form of `outputs`.
NextOutputs ==
    \E t \in {"t1"}, a \in GoodArguments, o \in OptOutputs, e \in {EnvOk, EnvFault} :
        train_minibatch(t, a, o, "gpu", e)

SpecOutputs == Init /\ [][NextOutputs]_vars

\* Two trainers of the same model and learners: both train, t1 saves checkpoints
\* and t2 restores them.
NextCkpt ==
    \/ \E t \in Trainers, d \in 0..MaxData :
           train_minibatch(t, ListArgs(<<1, 1>>, Absent, d), Absent, "gpu", EnvOk)
    \/ \E p \in Paths : save_checkpoint("t1", p, FALSE)
    \/ \E p \in Paths : restore_from_checkpoint("t2", p, FALSE)

SpecCkpt == Init /\ [][NextCkpt]_vars

\* ------------------------------------------- two callers, one trainer
\* The methods statement by statement: nothing in them holds a lock, so that
\* another caller may run between any two statements of a call.  A native call
\* is one step.
Enter(c, op, t, call) ==
    /\ pc[c] = "idle"
    /\ pc' = [pc EXCEPT ![c] = op]
    /\ frame' = [frame EXCEPT ![c] = [NoFrame EXCEPT !.op = op, !.t = t,
                                                     !.call = call]]
    /\ UNCHANGED <<params, lstate, stats, fs, last, sync, saved>>

\* The call of caller c ends: it returns ret or raises status.
Leave(c, status, ret) ==
    /\ pc' = [pc EXCEPT ![c] = "idle"]
    /\ frame' = [frame EXCEPT ![c] = NoFrame]
    /\ last' = [t |-> frame[c].t, status |-> status, dev |-> frame[c].dev,
                san |-> frame[c].san, ret |-> ret, op |-> frame[c].op,
                call |-> frame[c].call]

\* The engine state of trainer t becomes eng; t is followed no longer.
Engine(t, eng) ==
    /\ params' = [params EXCEPT ![t] = eng.params]
    /\ lstate' = [lstate EXCEPT ![t] = eng.lstate]
    /\ stats' = [stats EXCEPT ![t] = eng.stats]
    /\ sync' = [sync EXCEPT ![t] = NoSync]

CallTrain(c, t, arguments, outputs, device) ==
    Enter(c, "train_minibatch", t, Call(arguments, outputs, Absent, device, "none"))
CallTest(c, t, arguments, seq_starts, device) ==
    Enter(c, "test_minibatch", t, Call(arguments, Absent, seq_starts, device, "none"))
CallSave(c, t, filename) ==
    Enter(c, "save_checkpoint", t, Call(NoArgs, Absent, Absent, "None", filename))
CallRestore(c, t, filename) ==
    Enter(c, "restore_from_checkpoint", t,
          Call(NoArgs, Absent, Absent, "None", filename))

\* if not device: device = DeviceDescriptor.use_default_device()
StepDevice(c, env) ==
    /\ pc[c] \in {"train_minibatch", "test_minibatch"}
    /\ \E dev \in {ResolveDevice(frame[c].call.device, env.defaultOk)} :
          IF dev = "DeviceError"
          THEN /\ Leave(c, "DeviceError", NoRet)
               /\ last'.dev = "DeviceError"
               /\ UNCHANGED <<params, lstate, stats, fs, sync, saved>>
          ELSE /\ pc' = [pc EXCEPT ![c] = "sanitize"]
               /\ frame' = [frame EXCEPT ![c].dev = dev]
               /\ UNCHANGED <<params, lstate, stats, fs, last, sync, saved>>

\* arguments = sanitize_var_map(self.model().arguments(), arguments[, seq_starts])
StepSanitize(c) ==
    /\ pc[c] = "sanitize"
    /\ \E san \in {sanitize_var_map(ModelArguments, frame[c].call.arguments,
                                    frame[c].call.seq_starts)} :
          IF san.err # "none"
          THEN /\ Leave(c, san.err, NoRet)
               /\ UNCHANGED <<params, lstate, stats, fs, sync, saved>>
          ELSE /\ pc' = [pc EXCEPT ![c] = "step"]
               /\ frame' = [frame EXCEPT ![c].san = san.map]
               /\ UNCHANGED <<params, lstate, stats, fs, last, sync, saved>>

\* updated = super(Trainer, self).train_minibatch(arguments[, output_map], device)
StepTrain(c, env) ==
    /\ pc[c] = "step" /\ frame[c].op = "train_minibatch"
    /\ LET f == frame[c]
           output_map == IF OutputsRequested(f.call.outputs)
                         THEN NewOutputMap(f.call.outputs) ELSE {}
       IN  \E r \in {NativeTrain(f.t, f.san, f.call.arguments.data,
                                 Keys(output_map), env.fault)} :
              IF r.status # "ok"
              THEN /\ Leave(c, r.status, NoRet)
                   /\ UNCHANGED <<params, lstate, stats, fs, sync, saved>>
              ELSE /\ Engine(f.t, r.eng)
                   /\ pc' = [pc EXCEPT ![c] = "return"]
                   /\ frame' = [frame EXCEPT ![c].updated = r.flag,
                                   ![c].output_map = Filled(output_map, r.values)]
                   /\ UNCHANGED <<fs, last, saved>>

\* The conversion of the outputs, and the return of train_minibatch.
StepReturn(c) ==
    /\ pc[c] = "return"
    /\ Leave(c, "ok",
             TrainReturn(OutputsRequested(frame[c].call.outputs), frame[c].updated,
                         ConvertOutputs(frame[c].output_map)))
    /\ UNCHANGED <<params, lstate, stats, fs, sync, saved>>

\* return super(Trainer, self).test_minibatch(arguments, device)
StepTest(c, env) ==
    /\ pc[c] = "step" /\ frame[c].op = "test_minibatch"
    /\ \E r \in {NativeTest(frame[c].t, frame[c].san, frame[c].call.arguments.data,
                            env.fault)} :
          /\ Leave(c, r.status, IF r.status = "ok" THEN FloatRet(r.value) ELSE NoRet)
          /\ Engine(frame[c].t, r.eng)
          /\ UNCHANGED <<fs, saved>>

\* super(Trainer, self).save_checkpoint(filename)
StepSave(c, fault) ==
    /\ pc[c] = "save_checkpoint"
    /\ \E r \in {SaveOutcome(frame[c].t, frame[c].call.filename, fault)} :
          /\ Leave(c, r.status, NoRet)
          /\ Engine(frame[c].t, r.eng)
          /\ fs' = [fs EXCEPT ![frame[c].call.filename] = r.file]
          /\ saved' = IF r.status = "ok"
                      THEN [saved EXCEPT ![frame[c].call.filename] =
                               <<params[frame[c].t], lstate[frame[c].t]>>]
                      ELSE saved

\* super(Trainer, self).restore_from_checkpoint(filename)
StepRestore(c, fault) ==
    /\ pc[c] = "restore_from_checkpoint"
    /\ \E r \in {RestoreOutcome(frame[c].t, frame[c].call.filename, fault)} :
          /\ Leave(c, r.status, NoRet)
          /\ Engine(frame[c].t, r.eng)
          /\ fs' = [fs EXCEPT ![frame[c].call.filename] = r.file]
          /\ UNCHANGED saved

NextConc ==
    \E c \in Callers, t \in {"t1"} :
        \/ \E a \in {ListArgs(<<1, 1>>, Absent, 0), ListArgs(<<1>>, Absent, 0)},
              o \in {Absent, Given(<<"o1">>)} :
               CallTrain(c, t, a, o, "None")
        \/ \E s \in {Absent, Given(<<TRUE, FALSE>>)} :
               CallTest(c, t, ListArgs(<<1, 1>>, Absent, 0), s, "None")
        \/ \E p \in Paths : CallSave(c, t, p)
        \/ \E p \in Paths : CallRestore(c, t, p)
        \/ \E e \in {EnvOk, EnvNoDevice} : StepDevice(c, e)
        \/ StepSanitize(c)
        \/ \E e \in {EnvOk, EnvFault} : StepTrain(c, e)
        \/ StepReturn(c)
        \/ \E e \in {EnvOk, EnvFault} : StepTest(c, e)
        \/ \E f \in BOOLEAN : StepSave(c, f)
        \/ \E f \in BOOLEAN : StepRestore(c, f)

SpecConc == Init /\ [][NextConc]_vars

\* ------------------------------------------------------------- claims
Failed(l) == l.status # "ok"
TrainCall(l) == l.op = "train_minibatch"
TestCall(l) == l.op = "test_minibatch"

\* C1: train_minibatch without outputs returns a bare boolean; with a non-empty
\* collection of requested outputs it returns a pair whose map has exactly the
\* requested variables as its keys.
C1_ReturnShape ==
    (TrainCall(last) /\ ~Failed(last)) =>
        /\ ~last.call.outputs.given => last.ret.shape = "bool"
        /\ (last.call.outputs.given /\ last.call.outputs.list # <<>>) =>
              /\ last.ret.shape = "pair"
              /\ Keys(last.ret.map) = Range(last.call.outputs.list)
C1_Witness ==
    /\ TrainCall(last) /\ ~Failed(last)
    /\ last.call.outputs.given /\ Len(last.call.outputs.list) = 2
    /\ Cardinality(Keys(last.ret.map)) = 2

\* C8: whenever outputs was supplied, whatever collection it is, the call returns
\* the pair; only an absent outputs makes it return the bare flag.
C8_SuppliedGivesPair ==
    (TrainCall(last) /\ ~Failed(last)) =>
        (last.ret.shape = "pair" <=> last.call.outputs.given)

\* C2: the flag train_minibatch returns is false only if every learner was
\* exhausted when the step ran, and true whenever at least one was still active.
C2_FlagIsContinuing ==
    [][(TrainCall(last') /\ ~Failed(last')) =>
          (last'.ret.flag <=>
              \E l \in Learners : lstate[last'.t][l] < Budget(l))]_vars
\* The step in which the learners of shorter schedule were exhausted already and
\* the last one was still active.
C2_Witness ==
    /\ TrainCall(last) /\ ~Failed(last) /\ last.ret.flag
    /\ \A l \in Learners : lstate[last.t][l] = Budget(l)

\* C3: a failed train_minibatch leaves the loss average, the evaluation average,
\* the sample count, the parameters and the learners as they were.
C3_FailedTrainChangesNothing ==
    [][(TrainCall(last') /\ Failed(last')) =>
          UNCHANGED <<params, lstate, stats>>]_vars
C3_Witness ==
    /\ TrainCall(last) /\ last.status = "StepError"
    /\ last.call.outputs.given
    /\ stats[last.t].count > 0

\* C4: test_minibatch, successful or failed, changes neither the parameters and
\* learners nor what the previous_minibatch_* readers return.
C4_TestChangesNothing ==
    [][TestCall(last') => UNCHANGED <<params, lstate, stats>>]_vars
C4_Witness ==
    /\ TestCall(last) /\ ~Failed(last)
    /\ stats[last.t].count > 0
    /\ last.ret.value # stats[last.t].eval

\* C10: the rolling statistics change only in a successful train_minibatch; the
\* accessors and save_checkpoint leave statistics, parameters and learners alone.
ReadOnlyOps == Accessors \cup {"save_checkpoint"}
C10_StatsOnlyByTraining ==
    [][/\ stats' # stats => (TrainCall(last') /\ ~Failed(last'))
       /\ last'.op \in ReadOnlyOps => UNCHANGED <<params, lstate, stats>>]_vars
C10_Witness ==
    /\ last.op = "save_checkpoint" /\ ~Failed(last)
    /\ stats[last.t].count > 0
    /\ fs[last.call.filename].params = params[last.t]
    /\ fs[last.call.filename] # EarlierFile

Minibatch(l) == TrainCall(l) \/ TestCall(l)
ArgBatches(a) == Range(a.items) \cup {kv[2] : kv \in a.named}
BadList(l) ==
    /\ l.call.arguments.form = "list"
    /\ Len(l.call.arguments.items) # Len(ModelArguments)
ExactDict(l) ==
    /\ l.call.arguments.form = "dict"
    /\ Keys(l.call.arguments.named) = Range(ModelArguments)
UndeclaredKey(l) ==
    /\ l.call.arguments.form = "dict"
    /\ ~(Keys(l.call.arguments.named) \subseteq Range(ModelArguments))
CallFlags(l) == FlagsOf(l.call.arguments, l.call.seq_starts)
FlagsMismatch(l) ==
    \E f \in CallFlags(l) : \E b \in ArgBatches(l.call.arguments) : b # Len(f)

\* C5 as stated: a list of a length other than the number of declared inputs
\* makes train_minibatch and test_minibatch fail with ShapeMismatchError, and
\* train_minibatch on a dict of exactly the declared inputs succeeds and returns
\* a boolean.
C5_Original ==
    /\ (Minibatch(last) /\ BadList(last)) => last.status = "ShapeMismatchError"
    /\ (TrainCall(last) /\ ExactDict(last) /\ ~last.call.outputs.given) =>
          (~Failed(last) /\ last.ret.shape = "bool")

\* C5 as amended: such a list makes the call fail before any step is run, with
\* DeviceError when the default device does not resolve and with
\* ShapeMismatchError otherwise; a dict of exactly the declared inputs is never
\* rejected with ShapeMismatchError, and train_minibatch without outputs returns
\* a boolean on it unless the device resolution, a flag list of the wrong length
\* or the step itself fails.
C5_Amended ==
    [][/\ (Minibatch(last') /\ BadList(last')) =>
             /\ UNCHANGED <<params, lstate, stats>>
             /\ last'.status =
                   IF last'.dev = "DeviceError" THEN "DeviceError"
                   ELSE "ShapeMismatchError"
       /\ (TrainCall(last') /\ ExactDict(last') /\ ~last'.call.outputs.given) =>
             /\ last'.status \in {"ok", "DeviceError", "LengthMismatchError",
                                  "StepError"}
             /\ last'.status = "DeviceError" => last'.dev = "DeviceError"
             /\ last'.status = "LengthMismatchError" => FlagsMismatch(last')
             /\ ~Failed(last') => last'.ret.shape = "bool"]_vars
\* A list that is too long is rejected once training has changed the state, and
\* a dict of the declared inputs has been trained on.
C5_Witness ==
    /\ TestCall(last) /\ BadList(last) /\ last.status = "ShapeMismatchError"
    /\ Len(last.call.arguments.items) = Len(ModelArguments) + 1
    /\ stats[last.t].count > 0 /\ lstate[last.t][1] > 0

\* C6 as stated: a flag list whose length differs from the sample count of an
\* input makes the call fail with LengthMismatchError; without a flag list every
\* sample starts a new sequence.
C6_Original ==
    /\ (Minibatch(last) /\ FlagsMismatch(last)) =>
          last.status = "LengthMismatchError"
    /\ (Minibatch(last) /\ ~Failed(last) /\ CallFlags(last) = {}) =>
          \A e \in last.san : e[3] = AllStarts(e[2])

\* C6 as amended: such a flag list makes the call fail: with DeviceError when the
\* default device does not resolve, else with ShapeMismatchError when the
\* arguments do not fit the declared inputs, else with LengthMismatchError;
\* without a flag list every sample starts a new sequence.
C6_Amended ==
    /\ (Minibatch(last) /\ FlagsMismatch(last)) =>
          last.status =
             IF last.dev = "DeviceError" THEN "DeviceError"
             ELSE IF BadList(last) \/ UndeclaredKey(last) THEN "ShapeMismatchError"
             ELSE "LengthMismatchError"
    /\ (Minibatch(last) /\ ~Failed(last) /\ CallFlags(last) = {}) =>
          \A e \in last.san : e[3] = AllStarts(e[2])
\* seq_starts of the wrong length is rejected by test_minibatch.
C6_Witness ==
    /\ TestCall(last) /\ last.call.seq_starts.given /\ FlagsMismatch(last)
    /\ ~BadList(last) /\ last.status = "LengthMismatchError"
    /\ stats[last.t].count > 0

\* C9: on one trainer a checkpoint save or restore never overlaps a minibatch
\* step in flight, also when two callers use the trainer concurrently: no
\* trainer is Stepping and Checkpointing at once.
Stepping(t) ==
    \E c \in Callers :
        /\ frame[c].t = t
        /\ pc[c] \in {"train_minibatch", "test_minibatch", "sanitize", "step", "return"}
Checkpointing(t) ==
    \E c \in Callers :
        /\ frame[c].t = t
        /\ pc[c] \in {"save_checkpoint", "restore_from_checkpoint"}
C9_MutualExclusion == \A t \in Trainers : ~(Stepping(t) /\ Checkpointing(t))

====
